---- MODULE Spec2Model ----
(***************************************************************************)
(* A model of code/train/util.py: the lattice adjacency helpers, the       *)
(* Ricker wavelet kernel mhat, the nearest positive-definite projection,   *)
(* the cached MNIST loader get_labeled_data and the four save_* helpers.   *)
(* The helper groups share no state, so each group has its own             *)
(* specification over its own variables; the variables of the other groups *)
(* stay at their initial value.                                            *)
(***************************************************************************)
EXTENDS Integers, Sequences, FiniteSets, TLC

VARIABLES
    lat,      \* the last lattice call: its operation, arguments and return value
    mh,       \* the last mhat call: its arguments and return value
    pd,       \* nearestPD in progress: program position, A, A3, k, spacing
    files,    \* the MNIST files on disk: train and test image/label byte strings
    cache,    \* the pickle files on disk: file name -> pickled bundle
    writer,   \* history: file name -> the option combination of the call that wrote it
    first,    \* history: file name -> the bundle returned by the first call that returned
    raisedCalls, \* history: the <<file name, train>> pairs of the calls that raised
    calls,    \* the number of get_labeled_data calls made so far
    ld,       \* the last get_labeled_data call: arguments, path taken, outcome
    disk,     \* the .npy files in weights_dir: file name -> saved array
    saves,    \* the number of save_* calls made so far
    sv        \* the last save_* call: operation, arguments, outcome

vars == <<lat, mh, pd, files, cache, writer, first, raisedCalls, calls, ld, disk, saves, sv>>

loaderVars == <<files, cache, writer, first, raisedCalls, calls, ld>>
saveVars == <<disk, saves, sv>>

latIdle == [op |-> "idle"]
mhIdle == [op |-> "idle"]
pdIdle == [pc |-> "idle"]
ldIdle == [op |-> "idle"]
svIdle == [op |-> "idle"]
NoFiles == <<>>

Max(a, b) == IF a >= b THEN a ELSE b
Min(a, b) == IF a <= b THEN a ELSE b
Abs(a) == IF a >= 0 THEN a ELSE -a

(***************************************************************************)
(* Lattice adjacency: is_lattice_connection and get_neighbors.             *)
(***************************************************************************)

\* The largest grid side the lattice calls are made with.
MaxSqrt == 4

Structures == {"none", "4", "8", "all"}

\* is_lattice_connection with the guard of pattern 4's right-hand step
\* dropped: the last cell of a row becomes connected to the first cell of
\* the next row.
is_lattice_connection_nowrap(sqrt, i, j, lattice_structure) ==
    CASE lattice_structure = "none" -> FALSE
      [] lattice_structure = "4" ->
            \/ i + 1 = j
            \/ i - 1 = j /\ i % sqrt /= 0
            \/ i + sqrt = j
            \/ i - sqrt = j
      [] lattice_structure = "8" ->
            \/ i + 1 = j /\ j % sqrt /= 0
            \/ i - 1 = j /\ i % sqrt /= 0
            \/ i + sqrt = j
            \/ i - sqrt = j
            \/ i + sqrt = j + 1 /\ j % sqrt /= 0
            \/ i + sqrt = j - 1 /\ i % sqrt /= 0
            \/ i - sqrt = j + 1 /\ i % sqrt /= 0
            \/ i - sqrt = j - 1 /\ j % sqrt /= 0
      [] lattice_structure = "all" -> TRUE

\* util.py:213-231.  Python's `and` binds tighter than `or`; % on a negative
\* left operand with a positive divisor is the non-negative remainder in
\* Python as in TLA+.
is_lattice_connection(sqrt, i, j, lattice_structure) ==
    CASE lattice_structure = "none" -> FALSE
      [] lattice_structure = "4" ->
            \/ i + 1 = j /\ j % sqrt /= 0
            \/ i - 1 = j /\ i % sqrt /= 0
            \/ i + sqrt = j
            \/ i - sqrt = j
      [] lattice_structure = "8" ->
            \/ i + 1 = j /\ j % sqrt /= 0
            \/ i - 1 = j /\ i % sqrt /= 0
            \/ i + sqrt = j
            \/ i - sqrt = j
            \/ i + sqrt = j + 1 /\ j % sqrt /= 0
            \/ i + sqrt = j - 1 /\ i % sqrt /= 0
            \/ i - sqrt = j + 1 /\ i % sqrt /= 0
            \/ i - sqrt = j - 1 /\ j % sqrt /= 0
      [] lattice_structure = "all" -> TRUE

\* util.py:238-239: the candidate cells (i_, j_) around (i, j), in the order
\* down, up, right, left, down-right, down-left, up-right, up-left.
candidates(i, j) ==
    << <<i + 1, j>>, <<i - 1, j>>, <<i, j + 1>>, <<i, j - 1>>,
       <<i + 1, j + 1>>, <<i + 1, j - 1>>, <<i - 1, j + 1>>, <<i - 1, j - 1>> >>

\* util.py:234-244.  A candidate is tested and appended by its flattened
\* index i_ * sqrt + j_, never by its row and column.
get_neighbors(n, sqrt) ==
    LET i == n \div sqrt
        j == n % sqrt
        flat(c) == c[1] * sqrt + c[2]
        keep(c) == /\ is_lattice_connection(sqrt, i * sqrt + j, flat(c), "8")
                   /\ flat(c) >= 0
                   /\ flat(c) < sqrt * sqrt
        kept == SelectSeq(candidates(i, j), keep)
    IN  [p \in 1..Len(kept) |-> flat(kept[p])]

\* A call of is_lattice_connection(sqrt, i, j, lattice_structure).
IsLatticeConnectionCall ==
    /\ \E sqrt \in 2..MaxSqrt, s \in Structures :
         \E i \in 0..(sqrt * sqrt - 1), j \in 0..(sqrt * sqrt - 1) :
            lat' = [op |-> "is_lattice_connection", sqrt |-> sqrt, i |-> i, j |-> j,
                    lattice_structure |-> s,
                    ret |-> is_lattice_connection(sqrt, i, j, s)]
    /\ UNCHANGED <<mh, pd, loaderVars, saveVars>>

\* A call of get_neighbors(n, sqrt).
GetNeighborsCall ==
    /\ \E sqrt \in 2..MaxSqrt :
         \E n \in 0..(sqrt * sqrt - 1) :
            lat' = [op |-> "get_neighbors", sqrt |-> sqrt, n |-> n,
                    ret |-> get_neighbors(n, sqrt)]
    /\ UNCHANGED <<mh, pd, loaderVars, saveVars>>

InitIdle ==
    /\ lat = latIdle
    /\ mh = mhIdle
    /\ pd = pdIdle
    /\ files = NoFiles
    /\ cache = <<>>
    /\ writer = <<>>
    /\ first = <<>>
    /\ raisedCalls = {}
    /\ calls = 0
    /\ ld = ldIdle
    /\ disk = <<>>
    /\ saves = 0
    /\ sv = svIdle

NextLattice == IsLatticeConnectionCall \/ GetNeighborsCall

SpecLattice == InitIdle /\ [][NextLattice]_vars

\* The geometry the lattice claims are stated against: the row and column of
\* a flattened index, and adjacency of two cells of the grid.
Row(n, sqrt) == n \div sqrt
Col(n, sqrt) == n % sqrt

Adjacent4(sqrt, i, j) ==
    \/ Row(i, sqrt) = Row(j, sqrt) /\ Abs(Col(i, sqrt) - Col(j, sqrt)) = 1
    \/ Col(i, sqrt) = Col(j, sqrt) /\ Abs(Row(i, sqrt) - Row(j, sqrt)) = 1

Adjacent8(sqrt, i, j) ==
    /\ i /= j
    /\ Abs(Row(i, sqrt) - Row(j, sqrt)) <= 1
    /\ Abs(Col(i, sqrt) - Col(j, sqrt)) <= 1

\* The cells of the grid around n, in candidate order, as flattened indices.
GridNeighbors(n, sqrt) ==
    LET inGrid(c) == c[1] >= 0 /\ c[1] < sqrt /\ c[2] >= 0 /\ c[2] < sqrt
        kept == SelectSeq(candidates(Row(n, sqrt), Col(n, sqrt)), inGrid)
    IN  [p \in 1..Len(kept) |-> kept[p][1] * sqrt + kept[p][2]]

\* C1: get_neighbors(n, sqrt) returns exactly the cells of the grid that are
\* horizontally, vertically or diagonally adjacent to n, each once, in the
\* candidate order; get_neighbors(4, 3) holds all of 0, 1, 2, 3, 5, 6, 7, 8.
C1_NeighborsAreGridNeighbors ==
    lat.op = "get_neighbors" => lat.ret = GridNeighbors(lat.n, lat.sqrt)

\* C2: under pattern 8, is_lattice_connection is true exactly for distinct
\* cells whose rows differ by at most 1 and whose columns differ by at most 1.
C2_Pattern8IsAdjacency ==
    (lat.op = "is_lattice_connection" /\ lat.lattice_structure = "8")
        => (lat.ret <=> Adjacent8(lat.sqrt, lat.i, lat.j))

\* C3: under pattern 4, is_lattice_connection is true exactly when j is the
\* cell directly right, left, above or below i.
C3_Pattern4IsAdjacency ==
    (lat.op = "is_lattice_connection" /\ lat.lattice_structure = "4")
        => (lat.ret <=> Adjacent4(lat.sqrt, lat.i, lat.j))

\* C3's cases: on the 3 x 3 grid node 0 is connected to 1, and the call
\* (2, 3), which a missing row-wrap guard would connect, has been made.
C3_Witness ==
    /\ lat.op = "is_lattice_connection"
    /\ lat.lattice_structure = "4"
    /\ lat.sqrt = 3
    /\ \/ lat.i = 0 /\ lat.j = 1 /\ lat.ret
       \/ lat.i = 2 /\ lat.j = 3 /\ ~lat.ret

(***************************************************************************)
(* The wavelet kernel mhat, in fixed point: every value is a whole number  *)
(* of thousandths.                                                         *)
(***************************************************************************)

\* np.inf, the default of max_excite (and, negated, of max_inhib): a value
\* above every value the kernel takes.
Inf == 1000000

SampleT == -3..3
Sigmas == {1, 2}
Scales == {1, 2}
Shifts == {-500, 0, 500}
ExciteClamps == {0, 300, 1000, Inf}
InhibClamps == {-Inf, -1000, -300, 0}

\* 2 / (sqrt(3 * sigma) * pi ** 0.25), in thousandths.
RickerNorm(sigma) == IF sigma = 1 THEN 867 ELSE 613

\* exp(-t**2 / (2 * sigma**2)), in thousandths, for |t| <= 3 and sigma in {1, 2}.
ExpTerm(t, sigma) ==
    LET a == Abs(t)
    IN  IF sigma = 1
        THEN (CASE a = 0 -> 1000 [] a = 1 -> 607 [] a = 2 -> 135 [] OTHER -> 11)
        ELSE (CASE a = 0 -> 1000 [] a = 1 -> 882 [] a = 2 -> 607 [] OTHER -> 325)

\* util.py:85-89, the argument of the clamp:
\* scale * 2 / (sqrt(3 sigma) pi^(1/4)) * (1 - (t / sigma)^2) * exp(-t^2 / (2 sigma^2)) + shift
ricker(t, sigma, scale, shift) ==
    (scale * RickerNorm(sigma) * (sigma * sigma - t * t) * ExpTerm(t, sigma))
        \div (sigma * sigma * 1000) + shift

\* util.py:73-89: -np.maximum(np.minimum(<wavelet> + shift, max_excite), max_inhib);
\* the unary minus applies to the result of np.maximum.
mhat(t, sigma, scale, shift, max_excite, max_inhib) ==
    -Max(Min(ricker(t, sigma, scale, shift), max_excite), max_inhib)

\* A call of mhat.
MhatCall ==
    /\ \E t \in SampleT, sigma \in Sigmas, scale \in Scales, shift \in Shifts,
          max_excite \in ExciteClamps, max_inhib \in InhibClamps :
            /\ max_inhib <= max_excite
            /\ mh' = [op |-> "mhat", t |-> t, sigma |-> sigma, scale |-> scale,
                      shift |-> shift, max_excite |-> max_excite,
                      max_inhib |-> max_inhib,
                      ret |-> mhat(t, sigma, scale, shift, max_excite, max_inhib)]
    /\ UNCHANGED <<lat, pd, loaderVars, saveVars>>

NextMhat == MhatCall

SpecMhat == InitIdle /\ [][NextMhat]_vars

\* C5: with max_inhib <= max_excite, the value mhat returns is never greater
\* than max_excite and never less than max_inhib.
C5_MhatWithinClamps ==
    mh.op = "mhat" => (mh.ret <= mh.max_excite /\ mh.ret >= mh.max_inhib)

(***************************************************************************)
(* nearestPD and isPD, on the 2 x 2 matrices [[a, b], [c, a]], in exact     *)
(* arithmetic: every entry is a whole number of eighths, so that the       *)
(* halvings of lines 28, 33 and 35 stay whole.                             *)
(***************************************************************************)

\* The entries of the input matrix A range over -MaxEntry..MaxEntry (whole units).
MaxEntry == 2
\* The correction loop is followed for at most MaxK iterations.
MaxK == 3
\* One whole unit, in eighths: one factor 2 for each halving of lines 28, 33, 35.
Unit == 2 * 2 * 2

\* The error of la.eigvals, computed in floating point, in eighths.
RoundErr == {-1, 0, 1}

Mat(m11, m12, m21, m22) == << <<m11, m12>>, <<m21, m22>> >>
Transpose(M) == Mat(M[1][1], M[2][1], M[1][2], M[2][2])
MatAdd(M, N) == Mat(M[1][1] + N[1][1], M[1][2] + N[1][2],
                    M[2][1] + N[2][1], M[2][2] + N[2][2])
MatHalf(M) == Mat(M[1][1] \div 2, M[1][2] \div 2, M[2][1] \div 2, M[2][2] \div 2)
\* I * c for I = np.eye(2)
ScaledEye(c) == Mat(c, 0, 0, c)

\* la.cholesky (util.py:63), which reads the lower triangle: the factor exists
\* exactly when both pivots are positive; otherwise LinAlgError is raised.
cholesky(B) ==
    IF B[1][1] > 0 /\ B[1][1] * B[2][2] - B[2][1] * B[2][1] > 0
    THEN "factor"
    ELSE "LinAlgError"

\* isPD with the except branch returning True.
isPD_swallow(B) == TRUE

\* util.py:60-66
isPD(B) == IF cholesky(B) = "LinAlgError" THEN FALSE ELSE TRUE

\* util.py:29-31: H = V.T diag(s) V from la.svd(B).  For B = [[p, q], [q, p]]
\* the singular values are |p + q| and |p - q| with right singular vectors
\* (1, 1) / sqrt 2 and (1, -1) / sqrt 2, so H = [[(s1 + s2) / 2, (s1 - s2) / 2],
\* [(s1 - s2) / 2, (s1 + s2) / 2]].
polar(B) ==
    LET s1 == Abs(B[1][1] + B[1][2])
        s2 == Abs(B[1][1] - B[1][2])
    IN  Mat((s1 + s2) \div 2, (s1 - s2) \div 2, (s1 - s2) \div 2, (s1 + s2) \div 2)

\* util.py:53: np.min(np.real(la.eigvals(A3))) for A3 = [[p, q], [q, p]],
\* whose eigenvalues are p + q and p - q, off by the rounding error err.
mineig(A3, err) == Min(A3[1][1] + A3[1][2], A3[1][1] - A3[1][2]) + err

\* util.py:40: np.spacing(la.norm(A)), the gap to the next float: the
\* smallest positive step of the grid.
spacing(A) == 1

\* util.py:28-51: up to the early return, or to the entry of the loop.
NearestPDCall ==
    /\ pd.pc \in {"idle", "done"}
    /\ \E a \in -MaxEntry..MaxEntry, b \in -MaxEntry..MaxEntry, c \in -MaxEntry..MaxEntry :
         LET A  == Mat(Unit * a, Unit * b, Unit * c, Unit * a)
             B  == MatHalf(MatAdd(A, Transpose(A)))
             H  == polar(B)
             A2 == MatHalf(MatAdd(B, H))
             A3 == MatHalf(MatAdd(A2, Transpose(A2)))
         IN  IF isPD(A3)
             THEN pd' = [pc |-> "done", A |-> A, A3 |-> A3, k |-> 0,
                         path |-> "early", ret |-> A3]
             ELSE pd' = [pc |-> "loop", A |-> A, A3 |-> A3, k |-> 1,
                         spacing |-> spacing(A)]
    /\ UNCHANGED <<lat, mh, loaderVars, saveVars>>

\* util.py:52-55: one iteration of the loop body.
NearestPDLoopBody ==
    /\ pd.pc = "loop"
    /\ ~isPD(pd.A3)
    /\ pd.k <= MaxK
    /\ \E err \in RoundErr :
         pd' = [pd EXCEPT
                  !.A3 = MatAdd(pd.A3,
                                ScaledEye(-mineig(pd.A3, err) * pd.k * pd.k + pd.spacing)),
                  !.k = pd.k + 1]
    /\ UNCHANGED <<lat, mh, loaderVars, saveVars>>

\* util.py:52, 57: the loop condition fails and A3 is returned.
NearestPDLoopExit ==
    /\ pd.pc = "loop"
    /\ isPD(pd.A3)
    /\ pd' = [pc |-> "done", A |-> pd.A, A3 |-> pd.A3, k |-> pd.k,
              path |-> "loop", ret |-> pd.A3]
    /\ UNCHANGED <<lat, mh, loaderVars, saveVars>>

NextPD == NearestPDCall \/ NearestPDLoopBody \/ NearestPDLoopExit

SpecPD == InitIdle /\ [][NextPD]_vars

\* C10: whenever nearestPD returns, the Cholesky decomposition of the matrix
\* it returns exists (la.cholesky raises no LinAlgError on it), on the early
\* path as on the loop's; and a LinAlgError of the early check is not
\* propagated: it is the reason the loop is entered.
C10_ReturnedMatrixIsCholeskyDecomposable ==
    /\ pd.pc = "done" => cholesky(pd.ret) /= "LinAlgError"
    /\ (pd.pc = "loop" /\ pd.k = 1) => cholesky(pd.A3) = "LinAlgError"

\* C10's case: nearestPD has returned from the correction loop after at least
\* one iteration of its body.
C10_Witness ==
    pd.pc = "done" /\ pd.path = "loop" /\ pd.k >= 2

(***************************************************************************)
(* The cached MNIST loader get_labeled_data.                               *)
(***************************************************************************)

\* The image file and the label file hold at most MaxN entries each.
MaxN == 2
\* examples_per_class ranges over 1..MaxEpc.
MaxEpc == 2
\* The class lists passed hold at most MaxClasses classes.
MaxClasses == 2
\* A behaviour of the cache makes at most MaxCalls calls.
MaxCalls == 2

\* The pixel values and the label values the files are written with.
Pixels == {0, 1}
Labels == {0, 1}
\* The rows and cols the image file's header announces.
Shapes == {<<1, 2>>}

\* util.py:93, the defaults of classes and examples_per_class.
DefaultClasses == [k \in 1..10 |-> k - 1]
DefaultEpc == 100

\* The pickle_name the calls are made with.
BaseName == "training"

SeqsUpTo(S, n) == UNION {[1..m -> S] : m \in 0..n}

RECURSIVE SumSeq(_)
SumSeq(q) == IF q = <<>> THEN 0 ELSE q[1] + SumSeq(Tail(q))

RECURSIVE Concat(_)
Concat(qs) == IF qs = <<>> THEN <<>> ELSE qs[1] \o Concat(Tail(qs))

RECURSIVE GCD(_, _)
GCD(a, b) == IF b = 0 THEN a ELSE GCD(b, a % b)

\* struct.pack('>I', n): four bytes, most significant first.
BE4(n) == <<(n \div 16777216) % 256, (n \div 65536) % 256, (n \div 256) % 256, n % 256>>

\* util.py:117: unpack('>I', f.read(4))[0]
unpackI(b) == ((b[1] * 256 + b[2]) * 256 + b[3]) * 256 + b[4]

\* f.read(n) at offset pos (0-based).
readAt(f, pos, n) == SubSeq(f, pos + 1, pos + n)

\* The MNIST image file of util.py:116-119, 138: magic number, image count,
\* rows, cols, then the pixels, image by image and row by row.
ImagesFile(imgs, rows, cols) ==
    BE4(2051) \o BE4(Len(imgs)) \o BE4(rows) \o BE4(cols)
        \o Concat([i \in 1..Len(imgs) |-> Concat(imgs[i])])

\* The MNIST label file of util.py:122-123, 139: magic number, label count,
\* then one byte per label.
LabelsFile(labels) == BE4(2049) \o BE4(Len(labels)) \o labels

ImagesOf(rows, cols) == [1..rows -> [1..cols -> Pixels]]

\* Every pair of files with at most MaxN images and at most MaxN labels; the
\* two counts need not agree.
AllFilePairs ==
    UNION {
      { [images |-> ImagesFile(imgs, sh[1], sh[2]), labels |-> LabelsFile(labels)] :
            imgs \in SeqsUpTo(ImagesOf(sh[1], sh[2]), MaxN),
            labels \in SeqsUpTo(Labels, MaxN) } : sh \in Shapes }

\* util.py:116-123: the metadata of the two files.
header(f) ==
    [number_of_images |-> unpackI(readAt(f.images, 4, 4)),
     rows |-> unpackI(readAt(f.images, 8, 4)),
     cols |-> unpackI(readAt(f.images, 12, 4)),
     N |-> unpackI(readAt(f.labels, 4, 4))]

\* util.py:132-139: x[i] read pixel by pixel, y[i] one byte; y has shape (N, 1).
parse_x(f, N, rows, cols) ==
    [i \in 1..N |-> [r \in 1..rows |-> [c \in 1..cols |->
        readAt(f.images, 16 + ((i - 1) * rows + (r - 1)) * cols + (c - 1), 1)[1]]]]
parse_y(f, N) == [i \in 1..N |-> <<readAt(f.labels, 8 + (i - 1), 1)[1]>>]

\* np.zeros((rows, cols), dtype=np.uint8)
zeros(rows, cols) == [r \in 1..rows |-> [c \in 1..cols |-> 0]]

\* The indices of x, in order, whose label is class_index (util.py:147-148).
matching(y, class_index) ==
    SelectSeq([i \in 1..Len(y) |-> i], LAMBDA i : y[i][1] = class_index)

\* reduced_x with a class's block filled by every image, whatever its label.
reduced_x_any_label(x, y, classes, examples_per_class, rows, cols) ==
    [q \in 1..(examples_per_class * Len(classes)) |->
        LET j == ((q - 1) % examples_per_class) + 1
        IN  IF j <= Len(x) THEN x[j] ELSE zeros(rows, cols)]

\* util.py:144-152: the block of class idx holds the first
\* examples_per_class images of that label, in file order; the slots no
\* image is copied to keep the zeros of np.zeros.
reduced_x(x, y, classes, examples_per_class, rows, cols) ==
    [q \in 1..(examples_per_class * Len(classes)) |->
        LET idx == (q - 1) \div examples_per_class
            j == ((q - 1) % examples_per_class) + 1
            m == matching(y, classes[idx + 1])
        IN  IF j <= Len(m) THEN x[m[j]] ELSE zeros(rows, cols)]

\* util.py:154-155: label // examples_per_class, as uint8, shape (n, 1).
reduced_y(classes, examples_per_class) ==
    [q \in 1..(examples_per_class * Len(classes)) |->
        <<((q - 1) \div examples_per_class) % 256>>]

\* util.py:158-161: np.random.shuffle from one saved generator state: both
\* arrays are rearranged by the permutation perm.
shuffle(a, perm) == [p \in 1..Len(a) |-> a[perm[p]]]

\* The permutations the generator is taken to draw: every permutation of
\* 1..n for n <= 3 (the rotations and their reversals); for longer arrays
\* the identity, the rotation by one place and the reversal.
Perms(n) ==
    LET rot(r) == [p \in 1..n |-> ((p - 1 + r) % n) + 1]
        rev(r) == [p \in 1..n |-> ((r - p) % n) + 1]
    IN  IF n <= 3
        THEN {rot(r) : r \in 0..(n - 1)} \cup {rev(r) : r \in 0..(n - 1)}
        ELSE {rot(0), rot(1), rev(0)}

\* A float64 as an exact fraction in lowest terms; nan as 0 / 0.
Frac(a, b) == LET g == GCD(a, b) IN <<a \div g, b \div g>>
NaN == <<0, 0>>

\* util.py:166-174: every image is scaled by x_mean / np.sum(x[i, :]), with
\* x_mean = np.sum(x) / x.shape[0].  An all-zero image is 0 * inf or 0 * nan.
normalize(x) ==
    LET sums == [i \in 1..Len(x) |-> SumSeq([r \in 1..Len(x[i]) |-> SumSeq(x[i][r])])]
        total == SumSeq(sums)
    IN  [i \in 1..Len(x) |-> [r \in 1..Len(x[i]) |-> [c \in 1..Len(x[i][r]) |->
            IF sums[i] = 0 THEN NaN
            ELSE Frac(x[i][r][c] * total, Len(x) * sums[i])]]]

\* '_'.join([str(class_) for class_ in classes])
RECURSIVE JoinClasses(_)
JoinClasses(classes) ==
    IF Len(classes) = 1 THEN ToString(classes[1])
    ELSE ToString(classes[1]) \o "_" \o JoinClasses(Tail(classes))

\* util.py:98-102: the name of the cache file, without its '.pickle'.
cache_name(pickle_name, reduced_dataset, classes, examples_per_class, normalized_inputs) ==
    IF reduced_dataset
    THEN pickle_name \o "_reduced_" \o JoinClasses(classes) \o "_"
             \o ToString(examples_per_class)
    ELSE IF normalized_inputs
         THEN pickle_name \o "_normalized_inputs"
         ELSE pickle_name

\* os.path.isfile that never finds the file.
isfile_never(c, name) == FALSE

\* util.py:104: os.path.isfile('%s.pickle' % pickle_name)
isfile(c, name) == name \in DOMAIN c

\* p.dump and p.load (util.py:178, 105): the dictionary as a stream
\* of its items, and back.
dump(data) == <<"x", data.x, "y", data.y, "rows", data.rows, "cols", data.cols>>
load(blob) == [x |-> blob[2], y |-> blob[4], rows |-> blob[6], cols |-> blob[8]]

\* The count check that accepts every pair of files.
counts_never_differ(h) == FALSE

\* util.py:125: number_of_images != N
counts_differ(h) == h.number_of_images /= h.N

NoData == [raised |-> TRUE]

\* util.py:92-180.  The result: the cache file name, the path taken, whether
\* the call returned or raised, what it returned, and the cache files after it.
get_labeled_data(pickle_name, train, reduced_dataset, classes, examples_per_class, normalized_inputs, perm, fs, c) ==
    LET name == cache_name(pickle_name, reduced_dataset, classes,
                           examples_per_class, normalized_inputs)
        f == IF train THEN fs.train ELSE fs.test
        h == header(f)
        x0 == parse_x(f, h.N, h.rows, h.cols)
        y0 == parse_y(f, h.N)
        x1 == IF reduced_dataset
              THEN shuffle(reduced_x(x0, y0, classes, examples_per_class, h.rows, h.cols), perm)
              ELSE x0
        y1 == IF reduced_dataset
              THEN shuffle(reduced_y(classes, examples_per_class), perm)
              ELSE y0
        x2 == IF normalized_inputs THEN normalize(x1) ELSE x1
        data == [x |-> x2, y |-> y1, rows |-> h.rows, cols |-> h.cols]
    IN  IF isfile(c, name)
        THEN [name |-> name, path |-> "hit", outcome |-> "returned", parsed |-> FALSE,
              wrote |-> FALSE, data |-> load(c[name]), cache |-> c]
        ELSE IF counts_differ(h)
        THEN [name |-> name, path |-> "miss", outcome |-> "raised", parsed |-> FALSE,
              wrote |-> FALSE, data |-> NoData, cache |-> c]
        ELSE [name |-> name, path |-> "miss", outcome |-> "returned", parsed |-> TRUE,
              wrote |-> TRUE, data |-> data,
              cache |-> [k \in DOMAIN c \cup {name} |->
                            IF k = name THEN dump(data) ELSE c[k]]]

\* The active option combination of a call (the cache key is meant to tell
\* these apart).
Active(reduced_dataset, classes, examples_per_class, normalized_inputs) ==
    IF reduced_dataset
    THEN <<TRUE, normalized_inputs, classes, examples_per_class>>
    ELSE <<FALSE, normalized_inputs>>

\* One call of get_labeled_data, the call number limit at the latest, with
\* its arguments drawn from the given sets and the histories kept beside it.
Call(limit, trainFlags, classLists, epcs) ==
    /\ calls < limit
    /\ \E train \in trainFlags, reduced_dataset \in BOOLEAN, normalized_inputs \in BOOLEAN,
          classes \in classLists \cup {DefaultClasses},
          examples_per_class \in epcs \cup {DefaultEpc} :
         /\ reduced_dataset => (classes \in classLists /\ examples_per_class \in epcs)
         /\ ~reduced_dataset => (classes = DefaultClasses /\ examples_per_class = DefaultEpc)
         /\ \E perm \in (IF reduced_dataset
                         THEN Perms(examples_per_class * Len(classes))
                         ELSE {<<>>}) :
              \E r \in {get_labeled_data(BaseName, train, reduced_dataset, classes,
                                         examples_per_class, normalized_inputs,
                                         perm, files, cache)},
                 act \in {Active(reduced_dataset, classes, examples_per_class,
                                 normalized_inputs)} :
                  /\ ld' = [op |-> "get_labeled_data", train |-> train,
                            reduced_dataset |-> reduced_dataset, classes |-> classes,
                            examples_per_class |-> examples_per_class,
                            normalized_inputs |-> normalized_inputs,
                            name |-> r.name, path |-> r.path, outcome |-> r.outcome,
                            again |-> <<r.name, train>> \in raisedCalls,
                            parsed |-> r.parsed, wrote |-> r.wrote, ret |-> r.data]
                  /\ cache' = r.cache
                  /\ writer' = IF r.wrote
                               THEN [k \in DOMAIN writer \cup {r.name} |->
                                        IF k = r.name THEN act ELSE writer[k]]
                               ELSE writer
                  /\ first' = IF r.outcome = "returned" /\ r.name \notin DOMAIN first
                              THEN [k \in DOMAIN first \cup {r.name} |->
                                        IF k = r.name THEN r.data ELSE first[k]]
                              ELSE first
                  /\ raisedCalls' = IF r.outcome = "raised"
                                    THEN raisedCalls \cup {<<r.name, train>>}
                                    ELSE raisedCalls
    /\ calls' = calls + 1
    /\ UNCHANGED <<files, lat, mh, pd, saveVars>>

\* The class lists of at most MaxClasses labels.
ClassLists == SeqsUpTo(Labels, MaxClasses) \ {<<>>}

\* A file pair whose counts agree, one whose counts differ, and a second
\* dataset for the test files.
GoodFiles == [images |-> ImagesFile(<< <<<<1, 0>>>>, <<<<0, 1>>>> >>, 1, 2),
              labels |-> LabelsFile(<<0, 1>>)]
BadFiles == [images |-> ImagesFile(<< <<<<1, 0>>>>, <<<<0, 1>>>> >>, 1, 2),
             labels |-> LabelsFile(<<1>>)]
OtherFiles == [images |-> ImagesFile(<< <<<<1, 1>>>>, <<<<0, 1>>>> >>, 1, 2),
               labels |-> LabelsFile(<<1, 0>>)]

InitLoader(trainFiles, testFiles) ==
    /\ lat = latIdle
    /\ mh = mhIdle
    /\ pd = pdIdle
    /\ files \in [train : trainFiles, test : testFiles]
    /\ cache = <<>>
    /\ writer = <<>>
    /\ first = <<>>
    /\ raisedCalls = {}
    /\ calls = 0
    /\ ld = ldIdle
    /\ disk = <<>>
    /\ saves = 0
    /\ sv = svIdle

\* Sequences of calls on a few file pairs, from an empty cache.
GetLabeledDataCall == Call(MaxCalls, BOOLEAN, {<<0>>, <<1, 0>>}, {1, 2})
InitCache == InitLoader({GoodFiles, BadFiles}, {OtherFiles})
NextCache == GetLabeledDataCall
SpecCache == InitCache /\ [][NextCache]_vars

\* One call on every pair of training files, from an empty cache.
GetLabeledDataOnce == Call(1, {TRUE}, ClassLists, 1..MaxEpc)
InitOnce == InitLoader(AllFilePairs, {OtherFiles})
NextOnce == GetLabeledDataOnce
SpecOnce == InitOnce /\ [][NextOnce]_vars

\* The files a call reads, and what their headers and contents hold.
FilesRead(train) == IF train THEN files.train ELSE files.test
CountsDiffer(train) ==
    header(FilesRead(train)).number_of_images /= header(FilesRead(train)).N
IsCall(l) == l.op = "get_labeled_data"

\* C4: calls whose active option combinations differ use different cache
\* file names, so a call that hits the cache reads a file that was written
\* by a call with its own active option combination.
C4_HitReadsOwnCombination ==
    (IsCall(ld) /\ ld.path = "hit")
        => writer[ld.name] = Active(ld.reduced_dataset, ld.classes,
                                    ld.examples_per_class, ld.normalized_inputs)

\* C6: a call that misses the cache and returns has written the bundle it
\* returns to the cache file of its key (and to no other file); a call that
\* hits returns the stored bundle, parses nothing and leaves every cache
\* file as it was; and a call that returns under a key some earlier call
\* returned under returns the bundle that first call returned.
C6_Step ==
    (calls' = calls + 1) =>
        /\ (ld'.path = "miss" /\ ld'.outcome = "returned") =>
              /\ ld'.name \notin DOMAIN cache
              /\ DOMAIN cache' = DOMAIN cache \cup {ld'.name}
              /\ load(cache'[ld'.name]) = ld'.ret
              /\ \A k \in DOMAIN cache : cache'[k] = cache[k]
        /\ ld'.path = "hit" =>
              /\ ld'.name \in DOMAIN cache
              /\ ld'.outcome = "returned"
              /\ ld'.ret = load(cache[ld'.name])
              /\ ~ld'.parsed
              /\ cache' = cache
        /\ (ld'.outcome = "returned" /\ ld'.name \in DOMAIN first) =>
              ld'.ret = first[ld'.name]
C6_CacheWrittenOnMissReadOnHit == [][C6_Step]_vars

\* C6's case: a second or later call has hit the cache and returned the
\* bundle the first call under its key returned, in reduced mode, where a
\* recomputation could have shuffled differently.
C6_Witness ==
    /\ IsCall(ld) /\ ld.path = "hit" /\ calls >= 2
    /\ ld.reduced_dataset /\ ld.examples_per_class = 2
    /\ ld.ret = first[ld.name]

\* C7 as stated: a miss on files whose counts differ raises, returns no
\* bundle and leaves the cache as it was, and every later call with the
\* same key misses the cache and raises again.
C7_OriginalStep ==
    (calls' = calls + 1) =>
        /\ (ld'.path = "miss" /\ CountsDiffer(ld'.train)) =>
              (ld'.outcome = "raised" /\ cache' = cache)
        /\ (\E t \in BOOLEAN : <<ld'.name, t>> \in raisedCalls) =>
              (ld'.path = "miss" /\ ld'.outcome = "raised")
C7_LaterCallWithSameKeyRaises == [][C7_OriginalStep]_vars

\* C7 amended: a miss on files whose counts differ raises, returns no bundle
\* and leaves the cache as it was (no file for its key); and a later call
\* with the same key and the same train flag, made while the cache still
\* holds no file for the key, misses the cache and raises again.
C7_Step ==
    (calls' = calls + 1) =>
        /\ (ld'.path = "miss" /\ CountsDiffer(ld'.train)) =>
              /\ ld'.outcome = "raised"
              /\ ~ld'.wrote
              /\ cache' = cache
              /\ ld'.name \notin DOMAIN cache'
        /\ ld'.outcome = "raised" => (ld'.path = "miss" /\ CountsDiffer(ld'.train))
        /\ (<<ld'.name, ld'.train>> \in raisedCalls /\ ld'.name \notin DOMAIN cache) =>
              (ld'.path = "miss" /\ ld'.outcome = "raised")
C7_MismatchRaisesAndLeavesCache == [][C7_Step]_vars

\* C7's case: a call has raised for the second time under its key and train
\* flag, and the cache holds no file for its key.
C7_Witness ==
    /\ IsCall(ld) /\ ld.outcome = "raised" /\ ld.again
    /\ calls >= 2
    /\ ld.name \notin DOMAIN cache

\* What the reduced-mode claims are stated against: the parsed source
\* dataset of the call, and an image of the bundle being a copy of a source
\* image (after normalisation a copy holds the value v as the float v / 1).
SourceX(l) ==
    LET f == FilesRead(l.train) IN parse_x(f, header(f).N, header(f).rows, header(f).cols)
SourceY(l) == LET f == FilesRead(l.train) IN parse_y(f, header(f).N)
IsCopy(img, src, normalized_inputs) ==
    IF normalized_inputs
    THEN img = [r \in 1..Len(src) |-> [c \in 1..Len(src[r]) |-> <<src[r][c], 1>>]]
    ELSE img = src
IsZero(img) == \A r \in 1..Len(img) : \A c \in 1..Len(img[r]) : img[r][c] = 0
ReducedMiss(l) ==
    IsCall(l) /\ l.reduced_dataset /\ l.path = "miss" /\ l.outcome = "returned"
HasCopyOfClass(l, p) ==
    \E s \in 1..Len(SourceX(l)) :
        /\ SourceY(l)[s][1] = l.classes[l.ret.y[p][1] + 1]
        /\ IsCopy(l.ret.x[p], SourceX(l)[s], l.normalized_inputs)

\* C9 as stated: a reduced-mode miss returns examples_per_class *
\* len(classes) images and labels, and the image at every position p is a
\* copy of a source image whose label is classes[k], k the label at p.
C9_EveryImageIsCopyOfItsClass ==
    ReducedMiss(ld) =>
        /\ Len(ld.ret.x) = ld.examples_per_class * Len(ld.classes)
        /\ Len(ld.ret.y) = ld.examples_per_class * Len(ld.classes)
        /\ \A p \in 1..Len(ld.ret.x) : HasCopyOfClass(ld, p)

\* C9 amended: the counts are as stated; and with normalized_inputs false
\* the image at p is a copy of a source image whose label is classes[k], or
\* it is the all-zero image and the dataset holds fewer than
\* examples_per_class images of label classes[k].
C9_ImageIsCopyOfItsClassOrZeroPadding ==
    ReducedMiss(ld) =>
        /\ Len(ld.ret.x) = ld.examples_per_class * Len(ld.classes)
        /\ Len(ld.ret.y) = ld.examples_per_class * Len(ld.classes)
        /\ ~ld.normalized_inputs =>
             \A p \in 1..Len(ld.ret.x) :
                \/ HasCopyOfClass(ld, p)
                \/ /\ IsZero(ld.ret.x[p])
                   /\ Len(matching(SourceY(ld), ld.classes[ld.ret.y[p][1] + 1]))
                         < ld.examples_per_class

\* C9's case: a reduced-mode miss on two classes, of which the dataset holds
\* one image each, has returned its two images in swapped order.
C9_Witness ==
    /\ ReducedMiss(ld) /\ ~ld.normalized_inputs
    /\ ld.classes = <<0, 1>> /\ ld.examples_per_class = 1
    /\ ld.ret.y = << <<1>>, <<0>> >>
    /\ \A p \in 1..2 : HasCopyOfClass(ld, p) /\ ~IsZero(ld.ret.x[p])

(***************************************************************************)
(* The persistence helpers save_connections, save_theta, save_assignments  *)
(* and save_accumulated_rates.                                             *)
(***************************************************************************)

\* A behaviour makes at most MaxSaves save_* calls.
MaxSaves == 2

WeightsDir == "weights"
Endings == {"best"}
\* suffix: None, or a number; a number is held as <<n>>.
None == <<>>
Suffixes == {None, <<3>>}
Weights == {0, 1}

\* str(suffix)
str(suffix) == IF suffix = None THEN "None" ELSE ToString(suffix[1])

\* What connections[name][:] yields: a brian DenseConnectionMatrix, or a
\* sparse matrix that holds its non-zero entries by position.
DenseMatrices == {[kind |-> "dense", m |-> <<row>>] : row \in [1..2 -> Weights]}
SparseMatrices ==
    {[kind |-> "sparse", rows |-> 1, cols |-> 2, nz |-> [pos \in ps |-> 1]] :
        ps \in SUBSET {<<1, 1>>, <<1, 2>>}}
ConnectionMatrices == DenseMatrices \cup SparseMatrices

\* scipy's todense(): every position absent from the sparse matrix is 0.
todense(cm) ==
    [r \in 1..cm.rows |-> [c \in 1..cm.cols |->
        IF <<r, c>> \in DOMAIN cm.nz THEN cm.nz[<<r, c>>] ELSE 0]]

\* util.py:271-274
connection_matrix(cm) == IF cm.kind = "dense" THEN cm.m ELSE todense(cm)

\* np.save(os.path.join(weights_dir, file), arr): '.npy' is appended.
np_save(d, weights_dir, file, arr) ==
    LET path == weights_dir \o "/" \o file \o ".npy"
    IN  [k \in DOMAIN d \cup {path} |-> IF k = path THEN arr ELSE d[k]]

\* dict.update (util.py:266)
update(a, b) == [k \in DOMAIN a \cup DOMAIN b |-> IF k \in DOMAIN b THEN b[k] ELSE a[k]]

\* util.py:276-279
connection_file(connection_name, ending, suffix) ==
    IF suffix /= None
    THEN connection_name \o "_" \o ending \o "_" \o str(suffix)
    ELSE connection_name \o "_" \o ending

\* util.py:269-279: the files after the loop over connections.keys().
RECURSIVE save_each(_, _, _, _, _, _)
save_each(d, weights_dir, connections, names, ending, suffix) ==
    IF names = {} THEN d
    ELSE LET n == CHOOSE k \in names : TRUE
         IN  save_each(np_save(d, weights_dir, connection_file(n, ending, suffix),
                               connection_matrix(connections[n])),
                       weights_dir, connections, names \ {n}, ending, suffix)

\* util.py:260-279
save_connections(d, weights_dir, connections, input_connections, ending, suffix) ==
    LET merged == update(connections, input_connections)
    IN  [outcome |-> "returned",
         disk |-> save_each(d, weights_dir, merged, DOMAIN merged, ending, suffix)]

\* util.py:291-294
theta_file(population, ending, suffix) ==
    IF suffix /= None
    THEN "theta_" \o population \o "_" \o ending \o "_" \o str(suffix)
    ELSE "theta_" \o population \o "_" \o ending

\* util.py:289-294: the files after the loop over populations.
RECURSIVE save_thetas(_, _, _, _, _, _)
save_thetas(d, weights_dir, populations, neuron_groups, ending, suffix) ==
    IF populations = <<>> THEN d
    ELSE save_thetas(np_save(d, weights_dir, theta_file(populations[1], ending, suffix),
                             neuron_groups[populations[1] \o "e"].theta),
                     weights_dir, Tail(populations), neuron_groups, ending, suffix)

\* util.py:282-294
save_theta(d, weights_dir, populations, neuron_groups, ending, suffix) ==
    [outcome |-> "returned",
     disk |-> save_thetas(d, weights_dir, populations, neuron_groups, ending, suffix)]

\* util.py:297-303
save_assignments(d, weights_dir, assignments, ending, suffix) ==
    [outcome |-> "returned",
     disk |-> np_save(d, weights_dir, "assignments_" \o ending \o "_" \o str(suffix),
                      assignments)]

\* The names bound at the top level of util.py (its imports, its three
\* paths and its functions).
ModuleGlobals ==
    {"p", "np", "b", "os", "sys", "unpack", "la", "normalize", "top_level_path",
     "MNIST_data_path", "CIFAR10_data_path", "nearestPD", "isPD", "is_invertible",
     "mhat", "get_labeled_data", "get_labeled_CIFAR10_data", "is_lattice_connection",
     "get_neighbors", "get_mesh_neighbors", "save_connections", "save_theta",
     "save_assignments", "save_accumulated_rates"}

\* util.py:306-312.  The array handed to np.save is the name `assignments`,
\* which is neither a parameter of the function nor a global of the module:
\* evaluating it raises NameError before np.save is called.
save_accumulated_rates(d, weights_dir, accumulated_rates, ending, suffix) ==
    LET locals == {"weights_dir", "accumulated_rates", "ending", "suffix"}
    IN  IF "assignments" \notin locals \cup ModuleGlobals
        THEN [outcome |-> "NameError", disk |-> d]
        ELSE [outcome |-> "returned",
              disk |-> np_save(d, weights_dir,
                               "accumulated_rates_" \o ending \o "_" \o str(suffix),
                               "assignments")]

Arrays == [1..2 -> Weights]

SaveConnectionsCall ==
    /\ saves < MaxSaves
    /\ \E connections \in [{"AeAi"} -> ConnectionMatrices],
          input_connections \in [{"XeAe"} -> ConnectionMatrices],
          ending \in Endings, suffix \in Suffixes :
         \E r \in {save_connections(disk, WeightsDir, connections, input_connections,
                                    ending, suffix)} :
            /\ sv' = [op |-> "save_connections", connections |-> connections,
                      input_connections |-> input_connections, ending |-> ending,
                      suffix |-> suffix, outcome |-> r.outcome]
            /\ disk' = r.disk
    /\ saves' = saves + 1
    /\ UNCHANGED <<lat, mh, pd, loaderVars>>

SaveThetaCall ==
    /\ saves < MaxSaves
    /\ \E populations \in {<<"A">>, <<"A", "B">>},
          neuron_groups \in [{"Ae", "Be"} -> [theta : Arrays]],
          ending \in Endings, suffix \in Suffixes :
         \E r \in {save_theta(disk, WeightsDir, populations, neuron_groups,
                              ending, suffix)} :
            /\ sv' = [op |-> "save_theta", populations |-> populations,
                      neuron_groups |-> neuron_groups, ending |-> ending,
                      suffix |-> suffix, outcome |-> r.outcome]
            /\ disk' = r.disk
    /\ saves' = saves + 1
    /\ UNCHANGED <<lat, mh, pd, loaderVars>>

SaveAssignmentsCall ==
    /\ saves < MaxSaves
    /\ \E assignments \in Arrays, ending \in Endings, suffix \in Suffixes :
         \E r \in {save_assignments(disk, WeightsDir, assignments, ending, suffix)} :
            /\ sv' = [op |-> "save_assignments", assignments |-> assignments,
                      ending |-> ending, suffix |-> suffix, outcome |-> r.outcome]
            /\ disk' = r.disk
    /\ saves' = saves + 1
    /\ UNCHANGED <<lat, mh, pd, loaderVars>>

SaveAccumulatedRatesCall ==
    /\ saves < MaxSaves
    /\ \E accumulated_rates \in Arrays, ending \in Endings, suffix \in Suffixes :
         \E r \in {save_accumulated_rates(disk, WeightsDir, accumulated_rates,
                                          ending, suffix)} :
            /\ sv' = [op |-> "save_accumulated_rates",
                      accumulated_rates |-> accumulated_rates,
                      ending |-> ending, suffix |-> suffix, outcome |-> r.outcome]
            /\ disk' = r.disk
    /\ saves' = saves + 1
    /\ UNCHANGED <<lat, mh, pd, loaderVars>>

NextSave ==
    \/ SaveConnectionsCall
    \/ SaveThetaCall
    \/ SaveAssignmentsCall
    \/ SaveAccumulatedRatesCall

SpecSave == InitIdle /\ [][NextSave]_vars

\* The saved file of a unit, and its holding the array arr.
Saved(file, arr) ==
    LET path == WeightsDir \o "/" \o file \o ".npy"
    IN  path \in DOMAIN disk /\ disk[path] = arr

\* C8: each of the four save operations completes without error and leaves,
\* for each unit it was passed, one file whose content equals the data passed
\* for that unit: the densified weight matrix of each connection, the theta
\* array of each population, the assignments argument, the accumulated_rates
\* argument.
C8_EverySaveWritesWhatItWasPassed ==
    /\ sv.op /= "idle" => sv.outcome = "returned"
    /\ sv.op = "save_connections" =>
          /\ \A n \in DOMAIN sv.connections :
                Saved(connection_file(n, sv.ending, sv.suffix),
                      connection_matrix(sv.connections[n]))
          /\ \A n \in DOMAIN sv.input_connections :
                Saved(connection_file(n, sv.ending, sv.suffix),
                      connection_matrix(sv.input_connections[n]))
    /\ sv.op = "save_theta" =>
          \A i \in 1..Len(sv.populations) :
                Saved(theta_file(sv.populations[i], sv.ending, sv.suffix),
                      sv.neuron_groups[sv.populations[i] \o "e"].theta)
    /\ sv.op = "save_assignments" =>
          Saved("assignments_" \o sv.ending \o "_" \o str(sv.suffix), sv.assignments)
    /\ sv.op = "save_accumulated_rates" =>
          Saved("accumulated_rates_" \o sv.ending \o "_" \o str(sv.suffix),
                sv.accumulated_rates)

====
